---------------------------- MODULE Spec2Model ----------------------------
(***************************************************************************)
(* Binance Smart FVG screener (src/app.py): the indicator library, the gap *)
(* detector, the trade parameter calculator, the confidence scorer, one    *)
(* screening pass of run_screener, and the /run and /run_symbol handlers.  *)
(*                                                                         *)
(* Numbers.  Python floats are modelled as fixed-point integers: a price   *)
(* is a whole number of ticks, indicator values (EMA, ATR, the RSI         *)
(* averages) are in 1/FP of a tick, RSI values in 1/RSI_SCALE of a point,  *)
(* bar-delta-percent values in 1/BDP_SCALE, trade levels in 1/LV of a tick *)
(* (where every operation of smart_tp_sl_entry is exact), confidences in   *)
(* 1/CONF_SCALE.  A division that is not exact truncates toward zero.      *)
(* A float that is math.nan is the record NaN; a defined one is Num(v).    *)
(***************************************************************************)
EXTENDS Integers, Sequences, FiniteSets, TLC

VARIABLES
    \* ---- the indicator library called on its own
    ind_in,        \* [candles, period]: the argument lists and the period
    ind_out,       \* [ema, rsi, atr]: the three returned lists, or "pending"
    ind_pc,
    \* ---- the gap detector called on its own
    AUTO_THRESHOLD, \* the module-level flag read by detect_fvg_lux_from_klines
    det_klines,    \* the candle history passed in
    det_out,       \* [bull, bear]: the returned pair, or "pending"
    det_pc,
    \* ---- the trade parameter calculator called on its own
    par_in,        \* [side, gap, price, atr_val]: the arguments
    par_out,       \* [entry, sl, tp1, tp2, rr2]: the returned tuple, or "pending"
    par_pc,
    \* ---- one screening pass (run_screener)
    market,        \* per symbol, what GET /fapi/v1/klines answers (a Scenario)
    discovery_ok,  \* whether the exchangeInfo request succeeds
    pc,            \* position inside run_screener
    symbols,       \* the list returned by get_futures_symbols()
    idx,           \* the loop's position (1-based, as enumerate(symbols, 1))
    bullish_signals,
    bearish_signals,
    warnings,      \* the symbols whose evaluation raised (the printed warnings)
    visited,       \* the symbols whose loop iteration ran
    text,          \* << the report that is printed and sent >>, << >> before
    run_log,       \* << the snapshot written under runs/ >>, << >> if none
    \* ---- the Flask endpoints, one thread per request
    get_futures_symbols, \* what the module-level name is bound to
    requests       \* per request: path, argument, position, locals, outcome

passVars == <<market, discovery_ok, pc, symbols, idx, bullish_signals, bearish_signals,
              warnings, visited, text, run_log>>
parVars == <<par_in, par_out, par_pc>>
indVars == <<ind_in, ind_out, ind_pc>>
detVars == <<det_klines, det_out, det_pc>>
epVars == <<get_futures_symbols, requests>>
vars == <<ind_in, ind_out, ind_pc, AUTO_THRESHOLD, det_klines, det_out, det_pc,
          par_in, par_out, par_pc,
          market, discovery_ok, pc, symbols, idx, bullish_signals, bearish_signals,
          warnings, visited, text, run_log, get_futures_symbols, requests>>

-----------------------------------------------------------------------------
(* Fixed-point helpers *)

FP == 10^3
RSI_SCALE == 10^2
BDP_SCALE == 10^6
LV == 2 * 4 * 5 * FP      \* levels: halves, fifths and 1.5 / 2.5 multiples are exact
RR_SCALE == 10^2
CONF_SCALE == 10^4

Abs(x) == IF x < 0 THEN -x ELSE x
Max2(a, b) == IF a >= b THEN a ELSE b
Min2(a, b) == IF a <= b THEN a ELSE b

\* a / b on fixed-point numbers, truncating toward zero (b > 0)
Quot(a, b) == IF a >= 0 THEN a \div b ELSE -((-a) \div b)

NaN == [def |-> FALSE, v |-> 0]
Num(x) == [def |-> TRUE, v |-> x]

RECURSIVE Iterate(_, _, _, _)
\* a for loop: acc after Step(acc, i) for i = lo, lo + 1, ..., hi in this order
\* (split in halves, and the first half computed before the second is entered,
\* which is all the test left = left is for: TLC's evaluation stays shallow)
Iterate(Step(_, _), acc, lo, hi) ==
    IF lo > hi THEN acc
    ELSE IF lo = hi THEN Step(acc, lo)
    ELSE LET mid == (lo + hi) \div 2
             left == Iterate(Step, acc, lo, mid)
         IN IF left = left THEN Iterate(Step, left, mid + 1, hi) ELSE acc

\* sum(f[lo..hi]) of a function/sequence f
SumTo(f, lo, hi) == Iterate(LAMBDA acc, i: acc + f[i], 0, lo, hi)

-----------------------------------------------------------------------------
(* Indicators: ema, rsi, atr.  Python list index i is position i + 1.      *)

\* out[i] of ema, in 1/FP: out[0] = values[0]; out[i] = v*k + out[i-1]*(1-k)
\* with k = 2 / (period + 1)
EmaAt(values, period, i) ==
    Iterate(LAMBDA prev, j: Quot(2 * values[j] * FP + (period - 1) * prev, period + 1),
            values[1] * FP, 2, i)

ema(values, period) ==
    IF Len(values) = 0 \/ period <= 0 THEN << >>
    ELSE [i \in 1..Len(values) |-> EmaAt(values, period, i)]

\* gains[i], losses[i] of rsi for Python index i >= 1
Gain(closes, i) == Max2(closes[i + 1] - closes[i], 0)
Loss(closes, i) == Max2(closes[i] - closes[i + 1], 0)

\* <<avg_gain, avg_loss>> (1/FP) when the k-th value is appended to rsis:
\* k = 0 is the seed over gains[1..period]; k >= 1 is loop index period + 1 + k
RsiAvg(closes, period, k) ==
    Iterate(LAMBDA prev, j:
                << Quot(prev[1] * (period - 1) + FP * Gain(closes, period + 1 + j), period),
                   Quot(prev[2] * (period - 1) + FP * Loss(closes, period + 1 + j), period) >>,
            << Quot(FP * SumTo([i \in 1..period |-> Gain(closes, i)], 1, period), period),
               Quot(FP * SumTo([i \in 1..period |-> Loss(closes, i)], 1, period), period) >>,
            1, k)

\* 100 - 100 / (1 + rs), rs = avg_gain / avg_loss, or inf when avg_loss = 0
RsiValue(avg) ==
    IF avg[2] = 0 THEN 100 * RSI_SCALE
    ELSE Quot(100 * RSI_SCALE * avg[1], avg[1] + avg[2])

\* the number of values rsi appends after the period + 1 leading nans
RsiAppended(n, period) == 1 + Max2(0, n - (period + 2))

rsi(closes, period) ==
    LET n == Len(closes)
    IN IF n < period + 1 THEN [i \in 1..n |-> NaN]
       ELSE LET m == RsiAppended(n, period)
                len == Max2(period + 1 + m, n)
            IN [j \in 1..len |->
                   IF j <= period + 1 THEN NaN
                   ELSE IF j <= period + 1 + m
                        THEN Num(RsiValue(RsiAvg(closes, period, j - (period + 2))))
                        ELSE NaN]

\* trs[i] of atr for Python index i >= 1
TrueRange(highs, lows, closes, i) ==
    Max2(highs[i + 1] - lows[i + 1],
         Max2(Abs(highs[i + 1] - closes[i]), Abs(lows[i + 1] - closes[i])))

\* out[i] of atr (1/FP) for Python index i >= period: the mean of trs[1..period],
\* then out[i] = out[i-1] - alpha * out[i-1] + alpha * trs[i], alpha = 1 / period
AtrAt(highs, lows, closes, period, i) ==
    Iterate(LAMBDA prev, j:
                prev - Quot(prev, period)
                     + Quot(FP * TrueRange(highs, lows, closes, j), period),
            Quot(FP * SumTo([j \in 1..period |-> TrueRange(highs, lows, closes, j)],
                            1, period), period),
            period + 1, i)

atr(highs, lows, closes, period) ==
    LET n == Len(closes)
        lentrs == Max2(n, 1)
    IN IF Len(highs) # Len(lows) \/ Len(highs) # Len(closes)
       THEN [i \in 1..n |-> NaN]
       ELSE IF lentrs <= period THEN [i \in 1..n |-> NaN]
       ELSE [j \in 1..n |->
                IF j - 1 < period THEN NaN
                ELSE Num(AtrAt(highs, lows, closes, period, j - 1))]

\* one row of get_klines' result
Candle(o, h, l, c) == [open |-> o, high |-> h, low |-> l, close |-> c]

Closes(kl) == [i \in 1..Len(kl) |-> kl[i].close]
Highs(kl) == [i \in 1..Len(kl) |-> kl[i].high]
Lows(kl) == [i \in 1..Len(kl) |-> kl[i].low]

-----------------------------------------------------------------------------
(* LuxAlgo FVG logic *)

THRESH_WINDOW == 100

\* Python's None; a gap is a pair, so that "if bull_gap" is "bull_gap # None"
None == << >>

\* (close - open) / (open * 100), in 1/BDP_SCALE; 0 when open is 0
bar_delta_percent(o, c) ==
    IF o = 0 THEN 0 ELSE Quot((c - o) * BDP_SCALE, o * 100)

\* with the mean taken over x instead of abs(x)
auto_threshold_without_abs(bdp, window) ==
    IF Len(bdp) = 0 THEN 0
    ELSE LET first == IF Len(bdp) > window THEN Len(bdp) - window + 1 ELSE 1
             sample == [i \in first..Len(bdp) |-> bdp[i]]
         IN Quot(2 * SumTo(sample, first, Len(bdp)), Len(bdp) - first + 1)

\* 2 * fmean(abs(x) for x in the last `window` entries of bdp), 0 when empty
auto_threshold_from_series(bdp, window) ==
    IF Len(bdp) = 0 THEN 0
    ELSE LET first == IF Len(bdp) > window THEN Len(bdp) - window + 1 ELSE 1
             sample == [i \in first..Len(bdp) |-> Abs(bdp[i])]
         IN Quot(2 * SumTo(sample, first, Len(bdp)), Len(bdp) - first + 1)

\* the threshold detect_fvg_lux_from_klines compares against (len(klines) >= 1)
Threshold(klines, auto) ==
    LET bdp_series == [i \in 1..(Len(klines) - 1) |->
                          bar_delta_percent(klines[i].open, klines[i].close)]
    IN IF auto THEN auto_threshold_from_series(bdp_series, THRESH_WINDOW) ELSE 0

\* the detector with the prev1-close conditions left out
detect_without_close_test(klines, auto) ==
    IF Len(klines) < 3 THEN [bull |-> None, bear |-> None]
    ELSE LET n == Len(klines)
             prev2 == klines[n - 2]
             prev1 == klines[n - 1]
             curr == klines[n]
             thr == Threshold(klines, auto)
             prev1_bdp == bar_delta_percent(prev1.open, prev1.close)
         IN [bull |-> IF curr.low > prev2.high /\ prev1_bdp > thr
                      THEN << Min2(curr.low, prev2.high), Max2(curr.low, prev2.high) >>
                      ELSE None,
             bear |-> IF curr.high < prev2.low /\ -prev1_bdp > thr
                      THEN << Max2(curr.high, prev2.low), Min2(curr.high, prev2.low) >>
                      ELSE None]

\* returns [bull |-> (bottom, top) or None, bear |-> (top, bottom) or None]
detect_fvg_lux_from_klines(klines, auto) ==
    IF Len(klines) < 3 THEN [bull |-> None, bear |-> None]
    ELSE LET n == Len(klines)
             prev2 == klines[n - 2]
             prev1 == klines[n - 1]
             curr == klines[n]
             thr == Threshold(klines, auto)
             prev1_bdp == bar_delta_percent(prev1.open, prev1.close)
         IN [bull |-> IF /\ curr.low > prev2.high
                         /\ prev1.close > prev2.high
                         /\ prev1_bdp > thr
                      THEN << Min2(curr.low, prev2.high), Max2(curr.low, prev2.high) >>
                      ELSE None,
             bear |-> IF /\ curr.high < prev2.low
                         /\ prev1.close < prev2.low
                         /\ -prev1_bdp > thr
                      THEN << Max2(curr.high, prev2.low), Min2(curr.high, prev2.low) >>
                      ELSE None]

-----------------------------------------------------------------------------
(* Smart FVG strategy: TP/SL/entry and confidence *)

\* the floor of risk, 1e-12: prices are counted in ticks of 1e-12 (every other
\* step of the pipeline is invariant under the choice of the price unit)
EPSILON == 1

\* with the long stop measured from the upper edge of the gap
smart_tp_sl_entry_stop_at_wrong_edge(side, gap, price, atr_val) ==
    LET lo == IF gap[1] < gap[2] THEN gap[1] ELSE gap[2]
        hi == IF gap[1] < gap[2] THEN gap[2] ELSE gap[1]
        entry == (lo + hi) * (LV \div 2)
        cushion == IF atr_val.def THEN atr_val.v * (LV \div (5 * FP)) ELSE 0
        sl == IF side = "long" THEN hi * LV - cushion ELSE hi * LV + cushion
        risk == IF side = "long" THEN Max2(entry - sl, EPSILON * LV)
                                 ELSE Max2(sl - entry, EPSILON * LV)
        sign == IF side = "long" THEN 1 ELSE -1
    IN [entry |-> entry, sl |-> sl, tp1 |-> entry + sign * 3 * (risk \div 2),
        tp2 |-> entry + sign * 5 * (risk \div 2),
        rr2 |-> Quot(5 * (risk \div 2) * RR_SCALE, risk)]

\* with tp2 put at 2.0R instead of 2.5R
smart_tp_sl_entry_tp2_at_2R(side, gap, price, atr_val) ==
    LET lo == IF gap[1] < gap[2] THEN gap[1] ELSE gap[2]
        hi == IF gap[1] < gap[2] THEN gap[2] ELSE gap[1]
        entry == (lo + hi) * (LV \div 2)
        cushion == IF atr_val.def THEN atr_val.v * (LV \div (5 * FP)) ELSE 0
    IN IF side = "long"
       THEN LET sl == lo * LV - cushion
                risk == Max2(entry - sl, EPSILON * LV)
                tp2 == entry + 2 * risk
            IN [entry |-> entry, sl |-> sl, tp1 |-> entry + 3 * (risk \div 2),
                tp2 |-> tp2, rr2 |-> Quot((tp2 - entry) * RR_SCALE, risk)]
       ELSE LET sl == hi * LV + cushion
                risk == Max2(sl - entry, EPSILON * LV)
                tp2 == entry - 2 * risk
            IN [entry |-> entry, sl |-> sl, tp1 |-> entry - 3 * (risk \div 2),
                tp2 |-> tp2, rr2 |-> Quot((entry - tp2) * RR_SCALE, risk)]

\* entry, sl, tp1, tp2 in 1/LV of a tick, rr2 in 1/RR_SCALE; gap in ticks,
\* atr_val a float in 1/FP of a tick
smart_tp_sl_entry(side, gap, price, atr_val) ==
    LET lo == IF gap[1] < gap[2] THEN gap[1] ELSE gap[2]
        hi == IF gap[1] < gap[2] THEN gap[2] ELSE gap[1]
        entry == (lo + hi) * (LV \div 2)
        cushion == IF atr_val.def THEN atr_val.v * (LV \div (5 * FP)) ELSE 0
    IN IF side = "long"
       THEN LET sl == lo * LV - cushion
                risk == Max2(entry - sl, EPSILON * LV)
                tp1 == entry + 3 * (risk \div 2)
                tp2 == entry + 5 * (risk \div 2)
            IN [entry |-> entry, sl |-> sl, tp1 |-> tp1, tp2 |-> tp2,
                rr2 |-> Quot((tp2 - entry) * RR_SCALE, risk)]
       ELSE LET sl == hi * LV + cushion
                risk == Max2(sl - entry, EPSILON * LV)
                tp1 == entry - 3 * (risk \div 2)
                tp2 == entry - 5 * (risk \div 2)
            IN [entry |-> entry, sl |-> sl, tp1 |-> tp1, tp2 |-> tp2,
                rr2 |-> Quot((entry - tp2) * RR_SCALE, risk)]

\* 0..CONF_SCALE; price and gap in ticks, ema200_val in 1/FP, rsi_val a float
\* in 1/RSI_SCALE, atr_val a float in 1/FP
confidence_score(side, price, ema200_val, rsi_val, atr_val, gap) ==
    LET trend_ok == IF side = "long" THEN price * FP > ema200_val
                                     ELSE price * FP < ema200_val
        trend == IF trend_ok THEN (35 * CONF_SCALE) \div 100
                             ELSE -((25 * CONF_SCALE) \div 100)
        dist == Quot(Abs(rsi_val.v - 50 * RSI_SCALE) * CONF_SCALE, 50 * RSI_SCALE)
        wrong_side == \/ side = "long" /\ rsi_val.v < 50 * RSI_SCALE
                      \/ side = "short" /\ rsi_val.v > 50 * RSI_SCALE
        momentum == IF rsi_val.def
                    THEN Min2(dist, CONF_SCALE) \div 4
                         - (IF wrong_side THEN (15 * CONF_SCALE) \div 100 ELSE 0)
                    ELSE 0
        lo == IF gap[1] < gap[2] THEN gap[1] ELSE gap[2]
        hi == IF gap[1] < gap[2] THEN gap[2] ELSE gap[1]
        gap_pct50 == IF price > 0 THEN Quot((hi - lo) * 50 * CONF_SCALE, price) ELSE 0
        atr_pct20 == IF price > 0 /\ atr_val.def
                     THEN Quot(atr_val.v * ((20 * CONF_SCALE) \div FP), price) ELSE 0
        score == trend + momentum
                 + Min2(gap_pct50, (3 * CONF_SCALE) \div 10)
                 + Min2(Max2(atr_pct20, -(CONF_SCALE \div 10)), (2 * CONF_SCALE) \div 10)
    IN Max2(0, Min2(CONF_SCALE, Quot(score + CONF_SCALE, 2)))

-----------------------------------------------------------------------------
(* Binance data.  The exchange's answer for one symbol is a Scenario: a    *)
(* failed request, a malformed or non-list payload, or n candles that      *)
(* follow a price path (a level, one jump, a drift) and end with a         *)
(* displacement candle prev1 and the current candle.                       *)

ATR_PERIOD == 14
EMA_TREND_PERIOD == 200
RSI_PERIOD == 14
MAX_SYMBOLS_OUTPUT == 25
AI_MIN_CONF == (60 * CONF_SCALE) \div 100
MIN_RR == (15 * RR_SCALE) \div 10

Failure(kind) ==
    [kind |-> kind, n |-> 0, lvl0 |-> 0, jumpAt |-> 0, lvl1 |-> 0,
     driftFrom |-> 0, drift |-> 0, disp |-> 0, body |-> 0]

History(n, lvl0, jumpAt, lvl1, driftFrom, drift, disp, body) ==
    [kind |-> "candles", n |-> n, lvl0 |-> lvl0, jumpAt |-> jumpAt, lvl1 |-> lvl1,
     driftFrom |-> driftFrom, drift |-> drift, disp |-> disp, body |-> body]

\* the close of candle i of the path part (i <= n - 2) of scenario sc
PathClose(sc, i) ==
    (IF i <= sc.jumpAt THEN sc.lvl0 ELSE sc.lvl1) + sc.drift * Max2(0, i - sc.driftFrom)

\* a candle that opens at o and closes at c, without wicks
Bar(o, c) == Candle(o, Max2(o, c), Min2(o, c), c)

\* the rows of the klines payload served for scenario sc
Payload(sc) ==
    LET n == sc.n
        c0 == PathClose(sc, Max2(n - 2, 1))
    IN [i \in 1..n |->
           IF i = n /\ n >= 2 THEN Bar(c0 + sc.disp, c0 + sc.disp + sc.body)
           ELSE IF i = n - 1 /\ n >= 2 THEN Bar(c0, c0 + sc.disp)
           ELSE Bar(PathClose(sc, Max2(i - 1, 1)), PathClose(sc, i))]

\* get_klines raises: get_json re-raises the request's error after its last
\* retry, or a row of the payload does not convert with int() / float()
KlinesRaises(sc) == sc.kind \in {"http_error", "malformed"}

\* get_klines returns: [] when the payload is not a list, else the candles
get_klines(sc) == IF sc.kind = "not_list" THEN << >> ELSE Payload(sc)

-----------------------------------------------------------------------------
(* Screener + strategy: run_screener *)

\* with min in place of max
min_candles_by_min ==
    Min2(EMA_TREND_PERIOD + 5, Min2(ATR_PERIOD + 5, RSI_PERIOD + 5))

\* max(EMA_TREND_PERIOD + 5, ATR_PERIOD + 5, RSI_PERIOD + 5)
min_candles ==
    Max2(EMA_TREND_PERIOD + 5, Max2(ATR_PERIOD + 5, RSI_PERIOD + 5))

\* round(x, ndigits) from resolution `from` to resolution `to` (to divides from)
Round(x, from, to) == (x + (from \div to) \div 2) \div (from \div to)

\* the last values of the three indicator lists and the detector's answer
Reading(kl, auto) ==
    LET n == Len(kl)
        ema200 == ema(Closes(kl), EMA_TREND_PERIOD)
        rsi14 == rsi(Closes(kl), RSI_PERIOD)
        atr14 == atr(Highs(kl), Lows(kl), Closes(kl), ATR_PERIOD)
    IN [price |-> kl[n].close,
        ema_val |-> ema200[n],
        rsi_val |-> rsi14[n],
        atr_val |-> atr14[n],
        gaps |-> detect_fvg_lux_from_klines(kl, auto)]

\* the bullish branch without its RSI test
BullishCandidate_without_rsi_test(sym, r) ==
    IF r.gaps.bull # None /\ r.price * FP > r.ema_val
    THEN LET t == smart_tp_sl_entry("long", r.gaps.bull, r.price, r.atr_val)
             conf == confidence_score("long", r.price, r.ema_val, r.rsi_val,
                                      r.atr_val, r.gaps.bull)
         IN IF t.rr2 >= MIN_RR /\ conf >= AI_MIN_CONF
            THEN << [symbol |-> sym, price |-> r.price,
                     gap_low |-> Min2(r.gaps.bull[1], r.gaps.bull[2]),
                     gap_high |-> Max2(r.gaps.bull[1], r.gaps.bull[2]),
                     entry |-> t.entry, sl |-> t.sl, tp1 |-> t.tp1, tp2 |-> t.tp2,
                     rr |-> Round(t.rr2, RR_SCALE, 100),
                     confidence |-> Round(conf, CONF_SCALE, 100),
                     rsi |-> Round(r.rsi_val.v, RSI_SCALE, 10),
                     ema_trend |-> "Above EMA200"] >>
            ELSE << >>
    ELSE << >>

\* what the bullish branch appends to bullish_signals for reading r of sym
BullishCandidate(sym, r) ==
    IF /\ r.gaps.bull # None
       /\ r.price * FP > r.ema_val
       /\ r.rsi_val.def /\ r.rsi_val.v > 50 * RSI_SCALE
    THEN LET t == smart_tp_sl_entry("long", r.gaps.bull, r.price, r.atr_val)
             conf == confidence_score("long", r.price, r.ema_val, r.rsi_val,
                                      r.atr_val, r.gaps.bull)
         IN IF t.rr2 >= MIN_RR /\ conf >= AI_MIN_CONF
            THEN << [symbol |-> sym, price |-> r.price,
                     gap_low |-> Min2(r.gaps.bull[1], r.gaps.bull[2]),
                     gap_high |-> Max2(r.gaps.bull[1], r.gaps.bull[2]),
                     entry |-> t.entry, sl |-> t.sl, tp1 |-> t.tp1, tp2 |-> t.tp2,
                     rr |-> Round(t.rr2, RR_SCALE, 100),
                     confidence |-> Round(conf, CONF_SCALE, 100),
                     rsi |-> Round(r.rsi_val.v, RSI_SCALE, 10),
                     ema_trend |-> "Above EMA200"] >>
            ELSE << >>
    ELSE << >>

\* what the bearish branch appends to bearish_signals for reading r of sym
BearishCandidate(sym, r) ==
    IF /\ r.gaps.bear # None
       /\ r.price * FP < r.ema_val
       /\ r.rsi_val.def /\ r.rsi_val.v < 50 * RSI_SCALE
    THEN LET t == smart_tp_sl_entry("short", r.gaps.bear, r.price, r.atr_val)
             conf == confidence_score("short", r.price, r.ema_val, r.rsi_val,
                                      r.atr_val, r.gaps.bear)
         IN IF t.rr2 >= MIN_RR /\ conf >= AI_MIN_CONF
            THEN << [symbol |-> sym, price |-> r.price,
                     gap_top |-> Max2(r.gaps.bear[1], r.gaps.bear[2]),
                     gap_bottom |-> Min2(r.gaps.bear[1], r.gaps.bear[2]),
                     entry |-> t.entry, sl |-> t.sl, tp1 |-> t.tp1, tp2 |-> t.tp2,
                     rr |-> Round(t.rr2, RR_SCALE, 100),
                     confidence |-> Round(conf, CONF_SCALE, 100),
                     rsi |-> Round(r.rsi_val.v, RSI_SCALE, 10),
                     ema_trend |-> "Below EMA200"] >>
            ELSE << >>
    ELSE << >>

Flat(n, disp, body) == History(n, 1000, 0, 1000, 0, 0, disp, body)

\* the shortest history that run_screener evaluates
FullHistory == EMA_TREND_PERIOD + 5

BullStrong == Flat(FullHistory, 10, 2)        \* wide bullish gap, RSI 100
BullNarrow == Flat(FullHistory + 5, 1, 0)     \* one-tick gap, tiny ATR: risk is floored
BullWeakRsi == History(FullHistory, 900, 97, 1100, 182, -1, 5, 0)
                                              \* bullish gap above the EMA, RSI under 50
BullBelowEma == History(FullHistory, 1100, 97, 1000, 0, 0, 10, 2)
                                              \* bullish gap under the EMA
BearStrong == Flat(FullHistory, -10, -2)      \* wide bearish gap, RSI 0
BullTooShort == Flat(FullHistory - 1, 10, 2)  \* BullStrong, one candle short
NoGap == Flat(FullHistory, 0, 0)              \* a flat market

Catalogue ==
    { BullStrong, BullNarrow, BullWeakRsi, BullBelowEma, BearStrong, BullTooShort,
      NoGap, Failure("http_error"), Failure("malformed"), Failure("not_list") }

\* every scenario the exchange answers with in this model
Scenarios == Catalogue

\* get_klines and Reading are pure: their values over Scenarios, computed once
KlinesOf == [sc \in Scenarios |-> get_klines(sc)]
ReadingOf ==
    [sc \in Scenarios |->
        [auto \in BOOLEAN |->
            IF Len(KlinesOf[sc]) = 0 THEN "none" ELSE Reading(KlinesOf[sc], auto)]]

\* the loop position after an iteration that raised, were the loop abandoned
after_exception_abort(i, n) == n + 1

\* the loop position after an iteration that raised: except prints, finally
\* sleeps, and the for loop goes on with the next symbol
after_exception(i, n) == i + 1

\* the sort key (x["confidence"], x["rr"]) of a before that of b, reverse=True
KeyGreater(a, b) ==
    \/ a.confidence > b.confidence
    \/ a.confidence = b.confidence /\ a.rr > b.rr

RECURSIVE InsertDesc(_, _)
\* x put into the descending list after every entry whose key is not smaller
InsertDesc(sorted, x) ==
    IF sorted = << >> THEN << x >>
    ELSE IF KeyGreater(x, Head(sorted)) THEN << x >> \o sorted
    ELSE << Head(sorted) >> \o InsertDesc(Tail(sorted), x)

RECURSIVE SortedUpTo(_, _)
SortedUpTo(signals, k) ==
    IF k = 0 THEN << >> ELSE InsertDesc(SortedUpTo(signals, k - 1), signals[k])

\* the list left as it was
sort_signals_noop(signals) == signals

\* signals.sort(key=lambda x: (x["confidence"], x["rr"]), reverse=True): stable
sort_signals(signals) == SortedUpTo(signals, Len(signals))

\* fmt_side listing every signal
fmt_side_uncapped(signals) == signals

\* the signals fmt_side writes a line for: signals[:MAX_SYMBOLS_OUTPUT]
fmt_side(signals) == SubSeq(signals, 1, Min2(Len(signals), MAX_SYMBOLS_OUTPUT))

\* "Signals: N | Avg RR | Avg conf" over both whole lists (NaN: the dash)
Summary(bull, bear) ==
    LET all == bull \o bear
    IN [signals |-> Len(all),
        avg_rr |-> IF all = << >> THEN NaN
                   ELSE Num(Quot(SumTo([i \in 1..Len(all) |-> all[i].rr], 1, Len(all)),
                                 Len(all))),
        avg_conf |-> IF all = << >> THEN NaN
                     ELSE Num(Quot(SumTo([i \in 1..Len(all) |-> all[i].confidence],
                                         1, Len(all)), Len(all)))]

\* symbols = get_futures_symbols()
Discover ==
    /\ pc = "discover"
    /\ discovery_ok
    /\ symbols' = [i \in 1..Len(market) |-> i]
    /\ pc' = "scan"
    /\ UNCHANGED <<AUTO_THRESHOLD, indVars, detVars, parVars, epVars>>
    /\ UNCHANGED <<market, discovery_ok, idx, bullish_signals, bearish_signals,
                   warnings, visited, text, run_log>>

\* get_futures_symbols() raised: the failure is reported and run_screener returns
DiscoverFails ==
    /\ pc = "discover"
    /\ ~discovery_ok
    /\ pc' = "done"
    /\ UNCHANGED <<AUTO_THRESHOLD, indVars, detVars, parVars, epVars>>
    /\ UNCHANGED <<market, discovery_ok, symbols, idx, bullish_signals,
                   bearish_signals, warnings, visited, text, run_log>>

\* one iteration of the loop in which get_klines raises
ScanRaises ==
    /\ pc = "scan" /\ idx <= Len(symbols)
    /\ KlinesRaises(market[symbols[idx]])
    /\ warnings' = Append(warnings, symbols[idx])
    /\ visited' = Append(visited, symbols[idx])
    /\ idx' = after_exception(idx, Len(symbols))
    /\ UNCHANGED <<AUTO_THRESHOLD, indVars, detVars, parVars, epVars>>
    /\ UNCHANGED <<market, discovery_ok, pc, symbols, bullish_signals,
                   bearish_signals, text, run_log>>

\* one iteration that ends at "continue": too few candles
ScanSkips ==
    /\ pc = "scan" /\ idx <= Len(symbols)
    /\ ~KlinesRaises(market[symbols[idx]])
    /\ Len(KlinesOf[market[symbols[idx]]]) < min_candles
    /\ visited' = Append(visited, symbols[idx])
    /\ idx' = idx + 1
    /\ UNCHANGED <<AUTO_THRESHOLD, indVars, detVars, parVars, epVars>>
    /\ UNCHANGED <<market, discovery_ok, pc, symbols, bullish_signals,
                   bearish_signals, warnings, text, run_log>>

\* one iteration that evaluates the symbol
ScanEvaluates ==
    /\ pc = "scan" /\ idx <= Len(symbols)
    /\ ~KlinesRaises(market[symbols[idx]])
    /\ Len(KlinesOf[market[symbols[idx]]]) >= min_candles
    /\ LET r == ReadingOf[market[symbols[idx]]][AUTO_THRESHOLD]
       IN /\ bullish_signals' = bullish_signals \o BullishCandidate(symbols[idx], r)
          /\ bearish_signals' = bearish_signals \o BearishCandidate(symbols[idx], r)
    /\ visited' = Append(visited, symbols[idx])
    /\ idx' = idx + 1
    /\ UNCHANGED <<AUTO_THRESHOLD, indVars, detVars, parVars, epVars>>
    /\ UNCHANGED <<market, discovery_ok, pc, symbols, warnings, text, run_log>>

\* the loop is over: both lists are sorted
SortSignals ==
    /\ pc = "scan" /\ idx > Len(symbols)
    /\ bullish_signals' = sort_signals(bullish_signals)
    /\ bearish_signals' = sort_signals(bearish_signals)
    /\ pc' = "report"
    /\ UNCHANGED <<AUTO_THRESHOLD, indVars, detVars, parVars, epVars>>
    /\ UNCHANGED <<market, discovery_ok, symbols, idx, warnings, visited, text, run_log>>

\* the report is composed, printed and sent
Report ==
    /\ pc = "report"
    /\ text' = << [bullish |-> fmt_side(bullish_signals),
                   bearish |-> fmt_side(bearish_signals),
                   summary |-> Summary(bullish_signals, bearish_signals)] >>
    /\ pc' = "save"
    /\ UNCHANGED <<AUTO_THRESHOLD, indVars, detVars, parVars, epVars>>
    /\ UNCHANGED <<market, discovery_ok, symbols, idx, bullish_signals,
                   bearish_signals, warnings, visited, run_log>>

\* run_payload is written to runs/<timestamp>.json
SaveLog ==
    /\ pc = "save"
    /\ run_log' = << [auto_threshold |-> AUTO_THRESHOLD, ai_min_conf |-> AI_MIN_CONF,
                      bullish_signals |-> bullish_signals,
                      bearish_signals |-> bearish_signals] >>
    /\ pc' = "done"
    /\ UNCHANGED <<AUTO_THRESHOLD, indVars, detVars, parVars, epVars>>
    /\ UNCHANGED <<market, discovery_ok, symbols, idx, bullish_signals,
                   bearish_signals, warnings, visited, text>>

\* write_text raised: a warning is printed and nothing is saved
SaveLogFails ==
    /\ pc = "save"
    /\ pc' = "done"
    /\ UNCHANGED <<AUTO_THRESHOLD, indVars, detVars, parVars, epVars>>
    /\ UNCHANGED <<market, discovery_ok, symbols, idx, bullish_signals,
                   bearish_signals, warnings, visited, text, run_log>>

run_screener ==
    \/ Discover \/ DiscoverFails
    \/ ScanRaises \/ ScanSkips \/ ScanEvaluates
    \/ SortSignals \/ Report \/ SaveLog \/ SaveLogFails

-----------------------------------------------------------------------------
(* The indicator library on its own: every list of at most MaxIndLen       *)
(* candles over IndCandles, every period in 1..MaxIndPeriod.               *)

MaxIndLen == 4
MaxIndPeriod == 3

IndCandles == { Candle(10, 10, 10, 10), Candle(10, 12, 10, 12), Candle(12, 12, 9, 9) }

SeqsUpTo(S, n) == UNION { [1..k -> S] : k \in 0..n }

IndIdle ==
    /\ ind_in = [candles |-> << >>, period |-> 1]
    /\ ind_out = "pending"
    /\ ind_pc = "idle"

DetIdle ==
    /\ AUTO_THRESHOLD = TRUE
    /\ det_klines = << >>
    /\ det_out = "pending"
    /\ det_pc = "idle"

ParIdle ==
    /\ par_in = [side |-> "long", gap |-> <<0, 1>>, price |-> 0, atr_val |-> NaN]
    /\ par_out = "pending"
    /\ par_pc = "idle"

\* the function that def get_futures_symbols binds, and the one-symbol lambda
Original == [fn |-> "get_futures_symbols", sym |-> ""]
Lambda(sym) == [fn |-> "lambda", sym |-> sym]

EpIdle ==
    /\ get_futures_symbols = Original
    /\ requests = << >>

PassIdle ==
    /\ EpIdle
    /\ market = << >>
    /\ discovery_ok = TRUE
    /\ pc = "idle"
    /\ symbols = << >>
    /\ idx = 1
    /\ bullish_signals = << >>
    /\ bearish_signals = << >>
    /\ warnings = << >>
    /\ visited = << >>
    /\ text = << >>
    /\ run_log = << >>

IndInit ==
    /\ DetIdle
    /\ ParIdle
    /\ PassIdle
    /\ ind_in \in { [candles |-> kl, period |-> p] :
                      kl \in SeqsUpTo(IndCandles, MaxIndLen), p \in 1..MaxIndPeriod }
    /\ ind_out = "pending"
    /\ ind_pc = "call"

CallIndicators ==
    /\ ind_pc = "call"
    /\ ind_out' = [ema |-> ema(Closes(ind_in.candles), ind_in.period),
                   rsi |-> rsi(Closes(ind_in.candles), ind_in.period),
                   atr |-> atr(Highs(ind_in.candles), Lows(ind_in.candles),
                               Closes(ind_in.candles), ind_in.period)]
    /\ ind_pc' = "returned"
    /\ UNCHANGED <<ind_in, AUTO_THRESHOLD, detVars, parVars, passVars, epVars>>

IndNext == CallIndicators

SpecIndicators == IndInit /\ [][IndNext]_vars

\* C6: for every input length n >= 0 and every period >= 1, each of ema, rsi
\* and atr returns exactly n entries, aligned index-for-index with the input.
C6_AlignedWithInput ==
    ind_pc = "returned" =>
        /\ Len(ind_out.ema) = Len(ind_in.candles)
        /\ Len(ind_out.rsi) = Len(ind_in.candles)
        /\ Len(ind_out.atr) = Len(ind_in.candles)

-----------------------------------------------------------------------------
(* The gap detector on its own: every history of at most MaxDetLen candles *)
(* over DetCandles, with the adaptive threshold on (as shipped) or off.    *)

MaxDetLen == 4

DetCandles ==
    { Candle(100, 100, 100, 100),    \* flat, low
      Candle(100, 104, 100, 104),    \* displacement up
      Candle(100, 101, 100, 101),    \* small up
      Candle(101, 104, 100, 101),    \* wide range, no body
      Candle(104, 104, 100, 100),    \* displacement down
      Candle(104, 104, 103, 103),    \* small down
      Candle(104, 104, 104, 104) }   \* flat, high

DetInit ==
    /\ IndIdle
    /\ ParIdle
    /\ PassIdle
    /\ AUTO_THRESHOLD \in BOOLEAN
    /\ det_klines \in SeqsUpTo(DetCandles, MaxDetLen)
    /\ det_out = "pending"
    /\ det_pc = "call"

CallDetect ==
    /\ det_pc = "call"
    /\ det_out' = detect_fvg_lux_from_klines(det_klines, AUTO_THRESHOLD)
    /\ det_pc' = "returned"
    /\ UNCHANGED <<det_klines, AUTO_THRESHOLD, indVars, parVars, passVars, epVars>>

DetNext == CallDetect

SpecDetect == DetInit /\ [][DetNext]_vars

\* C7: a bullish gap is returned iff the history has at least 3 candles and
\* curr.low > prev2.high, prev1.close > prev2.high and
\* barDeltaPercent(prev1) > threshold; a bearish gap iff curr.high < prev2.low,
\* prev1.close < prev2.low and -barDeltaPercent(prev1) > threshold; a returned
\* gap has bounds min < max taken from (curr.low, prev2.high), resp.
\* (curr.high, prev2.low).
C7_GapIffPattern ==
    det_pc = "returned" =>
        LET n == Len(det_klines)
            prev2 == det_klines[n - 2]
            prev1 == det_klines[n - 1]
            curr == det_klines[n]
            thr == Threshold(det_klines, AUTO_THRESHOLD)
            bdp1 == bar_delta_percent(prev1.open, prev1.close)
        IN /\ det_out.bull # None <=>
                 (n >= 3 /\ curr.low > prev2.high /\ prev1.close > prev2.high
                         /\ bdp1 > thr)
           /\ det_out.bear # None <=>
                 (n >= 3 /\ curr.high < prev2.low /\ prev1.close < prev2.low
                         /\ -bdp1 > thr)
           /\ det_out.bull # None =>
                 /\ det_out.bull[1] < det_out.bull[2]
                 /\ {det_out.bull[1], det_out.bull[2]} = {curr.low, prev2.high}
           /\ det_out.bear # None =>
                 /\ det_out.bear[2] < det_out.bear[1]
                 /\ {det_out.bear[1], det_out.bear[2]} = {curr.high, prev2.low}

\* C7 witness: the detector returned a bullish gap under the adaptive threshold
C7_BullishGapReturned ==
    det_pc = "returned" /\ AUTO_THRESHOLD /\ det_out.bull # None

-----------------------------------------------------------------------------
(* The trade parameter calculator on its own: both sides, every gap with   *)
(* distinct bounds in GapBase..GapBase + MaxGapWidth (in either order),    *)
(* ATR undefined or a whole number of ticks in 0..MaxAtr.                  *)

GapBase == 100
MaxGapWidth == 10
MaxAtr == 5

ParInit ==
    /\ IndIdle
    /\ DetIdle
    /\ PassIdle
    /\ par_in \in { [side |-> s, gap |-> g, price |-> Max2(g[1], g[2]), atr_val |-> v] :
                      s \in {"long", "short"},
                      g \in { p \in (GapBase..(GapBase + MaxGapWidth))
                                     \X (GapBase..(GapBase + MaxGapWidth)) : p[1] # p[2] },
                      v \in {NaN} \cup { Num(t * FP) : t \in 0..MaxAtr } }
    /\ par_out = "pending"
    /\ par_pc = "call"

CallSmartTpSlEntry ==
    /\ par_pc = "call"
    /\ par_out' = smart_tp_sl_entry(par_in.side, par_in.gap, par_in.price, par_in.atr_val)
    /\ par_pc' = "returned"
    /\ UNCHANGED <<par_in, AUTO_THRESHOLD, indVars, detVars, passVars, epVars>>

ParNext == CallSmartTpSlEntry

SpecParams == ParInit /\ [][ParNext]_vars

\* C9: for a gap gapLow < gapHigh and a defined ATR >= 0, a long gets
\* entry = (gapLow + gapHigh) / 2, stopLoss = gapLow - 0.2 * ATR,
\* risk = entry - stopLoss, takeProfit1 = entry + 1.5 * risk,
\* takeProfit2 = entry + 2.5 * risk and riskReward = 2.5 whenever risk was not
\* floored; a short gets the mirror image (stopLoss = gapHigh + 0.2 * ATR,
\* targets below the entry); gap (100, 110) with ATR 5 gives a long
\* 105, 99, 114, 120 and 2.5.
C9_TradeParameters ==
    (par_pc = "returned" /\ par_in.atr_val.def) =>
        LET gapLow == Min2(par_in.gap[1], par_in.gap[2])
            gapHigh == Max2(par_in.gap[1], par_in.gap[2])
            atr5 == par_in.atr_val.v * (LV \div FP)       \* ATR in 1/LV of a tick
            o == par_out
            risk == IF par_in.side = "long" THEN o.entry - o.sl ELSE o.sl - o.entry
            floored == risk < EPSILON * LV
        IN /\ 2 * o.entry = (gapLow + gapHigh) * LV
           /\ par_in.side = "long" => 5 * (gapLow * LV - o.sl) = atr5
           /\ par_in.side = "short" => 5 * (o.sl - gapHigh * LV) = atr5
           /\ (par_in.side = "long" /\ ~floored) =>
                 /\ 2 * (o.tp1 - o.entry) = 3 * risk
                 /\ 2 * (o.tp2 - o.entry) = 5 * risk
                 /\ 2 * o.rr2 = 5 * RR_SCALE
           /\ (par_in.side = "short" /\ ~floored) =>
                 /\ 2 * (o.entry - o.tp1) = 3 * risk
                 /\ 2 * (o.entry - o.tp2) = 5 * risk
                 /\ 2 * o.rr2 = 5 * RR_SCALE
           /\ (par_in.side = "long" /\ par_in.gap = <<100, 110>>
                  /\ par_in.atr_val = Num(5 * FP)) =>
                 /\ o.entry = 105 * LV /\ o.sl = 99 * LV
                 /\ o.tp1 = 114 * LV /\ o.tp2 = 120 * LV

\* C9 witness: the call long, gap (100, 110), ATR 5 has returned
C9_ExampleReturned ==
    /\ par_pc = "returned"
    /\ par_in.side = "long" /\ par_in.gap = <<100, 110>> /\ par_in.atr_val = Num(5 * FP)
    /\ par_out.entry = 105 * LV /\ par_out.rr2 = (5 * RR_SCALE) \div 2

-----------------------------------------------------------------------------
(* One screening pass over a universe of at most MaxSymbols symbols, each  *)
(* answered by one scenario of Catalogue.                                  *)

MaxSymbols == 3

PassStart ==
    /\ AUTO_THRESHOLD \in BOOLEAN
    /\ det_klines = << >> /\ det_out = "pending" /\ det_pc = "idle"
    /\ IndIdle
    /\ ParIdle
    /\ EpIdle
    /\ discovery_ok \in BOOLEAN
    /\ pc = "discover"
    /\ symbols = << >>
    /\ idx = 1
    /\ bullish_signals = << >>
    /\ bearish_signals = << >>
    /\ warnings = << >>
    /\ visited = << >>
    /\ text = << >>
    /\ run_log = << >>

Init ==
    /\ PassStart
    /\ market \in SeqsUpTo(Catalogue, MaxSymbols)

Next == run_screener

Spec == Init /\ [][Next]_vars

\* the symbols that have an entry in a list of signals
Listed(signals) == { signals[i].symbol : i \in 1..Len(signals) }

\* what symbol s adds to the two lists in a pass in which no symbol fails
Contribution(s) ==
    IF Len(KlinesOf[market[s]]) < min_candles
    THEN [bull |-> << >>, bear |-> << >>]
    ELSE [bull |-> BullishCandidate(s, ReadingOf[market[s]][AUTO_THRESHOLD]),
          bear |-> BearishCandidate(s, ReadingOf[market[s]][AUTO_THRESHOLD])]

\* C1: when the evaluation of some symbols raises, the scan still visits every
\* symbol, each symbol that does not fail contributes exactly the candidates
\* it contributes in a pass where no symbol fails, and a failing symbol is in
\* neither list.
C1_FailuresAreIsolated ==
    pc \in {"report", "save", "done"} /\ symbols # << >> =>
        /\ visited = symbols
        /\ \A s \in 1..Len(symbols) :
              IF KlinesRaises(market[s])
              THEN s \notin Listed(bullish_signals) \cup Listed(bearish_signals)
              ELSE /\ SelectSeq(bullish_signals, LAMBDA e : e.symbol = s)
                        = Contribution(s).bull
                   /\ SelectSeq(bearish_signals, LAMBDA e : e.symbol = s)
                        = Contribution(s).bear

\* C1 witness: a pass is over in which a symbol failed and a symbol scanned
\* after it is listed
C1_FailureThenCandidate ==
    /\ pc = "done"
    /\ \E s \in 1..Len(symbols), t \in 1..Len(symbols) :
          /\ s < t
          /\ KlinesRaises(market[s])
          /\ t \in Listed(bullish_signals) \cup Listed(bearish_signals)

\* C2: every bullish entry comes from a symbol with a bullish gap, close above
\* the EMA, RSI defined and above 50, riskReward >= 1.5 and
\* confidence >= 0.60; every bearish entry from one with a bearish gap, close
\* below the EMA, RSI defined and below 50 and the same two gates.
C2_EveryGatePassed ==
    /\ \A i \in 1..Len(bullish_signals) :
          LET e == bullish_signals[i]
              r == ReadingOf[market[e.symbol]][AUTO_THRESHOLD]
          IN /\ r.gaps.bull # None
             /\ r.price * FP > r.ema_val
             /\ r.rsi_val.def /\ r.rsi_val.v > 50 * RSI_SCALE
             /\ 10 * smart_tp_sl_entry("long", r.gaps.bull, r.price, r.atr_val).rr2
                    >= 15 * RR_SCALE
             /\ 10 * e.rr >= 15 * 100
             /\ 100 * confidence_score("long", r.price, r.ema_val, r.rsi_val,
                                       r.atr_val, r.gaps.bull) >= 60 * CONF_SCALE
             /\ e.confidence >= 60
    /\ \A i \in 1..Len(bearish_signals) :
          LET e == bearish_signals[i]
              r == ReadingOf[market[e.symbol]][AUTO_THRESHOLD]
          IN /\ r.gaps.bear # None
             /\ r.price * FP < r.ema_val
             /\ r.rsi_val.def /\ r.rsi_val.v < 50 * RSI_SCALE
             /\ 10 * smart_tp_sl_entry("short", r.gaps.bear, r.price, r.atr_val).rr2
                    >= 15 * RR_SCALE
             /\ 10 * e.rr >= 15 * 100
             /\ 100 * confidence_score("short", r.price, r.ema_val, r.rsi_val,
                                       r.atr_val, r.gaps.bear) >= 60 * CONF_SCALE
             /\ e.confidence >= 60

\* C2 witness: a pass is over that lists a bullish and a bearish candidate and
\* has turned down a symbol with a bullish gap
C2_ListedAndTurnedDown ==
    /\ pc = "done"
    /\ bullish_signals # << >> /\ bearish_signals # << >>
    /\ \E s \in 1..Len(symbols) :
          /\ Len(KlinesOf[market[s]]) >= min_candles
          /\ ReadingOf[market[s]][AUTO_THRESHOLD].gaps.bull # None
          /\ s \notin Listed(bullish_signals)

\* C3: a symbol whose history has fewer than
\* max(trendPeriod + 5, atrPeriod + 5, momentumPeriod + 5) = 205 candles (the
\* empty history of a non-list payload included) is in neither list, and
\* skipping it is not an error.
C3_ShortHistoriesNeverListed ==
    \A s \in 1..Len(market) :
        (/\ ~KlinesRaises(market[s])
         /\ \/ Len(KlinesOf[market[s]]) < EMA_TREND_PERIOD + 5
            \/ Len(KlinesOf[market[s]]) < ATR_PERIOD + 5
            \/ Len(KlinesOf[market[s]]) < RSI_PERIOD + 5)
        => /\ s \notin Listed(bullish_signals) \cup Listed(bearish_signals)
           /\ \A i \in 1..Len(warnings) : warnings[i] # s

\* C3 witness: a pass is over that visited a symbol with one candle too few
\* and a symbol with an empty history, and listed another symbol
C3_ShortSymbolsVisited ==
    /\ pc = "done"
    /\ \E s \in 1..Len(symbols), t \in 1..Len(symbols) :
          /\ market[s] = BullTooShort /\ market[t] = Failure("not_list")
          /\ \E i \in 1..Len(visited) : visited[i] = s
          /\ \E i \in 1..Len(visited) : visited[i] = t
    /\ bullish_signals # << >>

\* adjacent entries are non-increasing in (confidence, riskReward)
NonIncreasing(signals) ==
    \A i \in 1..(Len(signals) - 1) :
        \/ signals[i].confidence > signals[i + 1].confidence
        \/ /\ signals[i].confidence = signals[i + 1].confidence
           /\ signals[i].rr >= signals[i + 1].rr

\* C5: after a pass each output list is non-increasing in
\* (confidence, riskReward), compared lexicographically.
C5_ListsAreSorted ==
    /\ pc \in {"report", "save", "done"} =>
          NonIncreasing(bullish_signals) /\ NonIncreasing(bearish_signals)
    /\ text # << >> => NonIncreasing(text[1].bullish) /\ NonIncreasing(text[1].bearish)
    /\ run_log # << >> =>
          /\ NonIncreasing(run_log[1].bullish_signals)
          /\ NonIncreasing(run_log[1].bearish_signals)

\* C5 witness: a pass is over whose bullish list holds, first, a candidate
\* that was scanned after the one behind it, with a higher confidence
C5_SortReordered ==
    /\ pc = "done"
    /\ Len(bullish_signals) >= 2
    /\ bullish_signals[1].symbol > bullish_signals[2].symbol
    /\ bullish_signals[1].confidence > bullish_signals[2].confidence

WideExtra == 2

WideCatalogue == {BullStrong, BullNarrow, BearStrong,
                  Failure("http_error"), Failure("not_list")}

Alternating(n, a, b) == [i \in 1..n |-> IF i % 2 = 1 THEN a ELSE b]

WideInit ==
    /\ PassStart
    /\ \E n \in (MAX_SYMBOLS_OUTPUT - 1)..(MAX_SYMBOLS_OUTPUT + WideExtra) :
       \E a \in WideCatalogue, b \in WideCatalogue :
          market = Alternating(n, a, b)

SpecWide == WideInit /\ [][Next]_vars

\* C4 (as claimed): after the scan neither side, as reported or as written to
\* the run snapshot, holds more than the configured maximum of candidates.
C4_BothSidesCapped ==
    /\ text # << >> =>
          /\ Len(text[1].bullish) <= MAX_SYMBOLS_OUTPUT
          /\ Len(text[1].bearish) <= MAX_SYMBOLS_OUTPUT
    /\ run_log # << >> =>
          /\ Len(run_log[1].bullish_signals) <= MAX_SYMBOLS_OUTPUT
          /\ Len(run_log[1].bearish_signals) <= MAX_SYMBOLS_OUTPUT

\* the first Min(Len(signals), MAX_SYMBOLS_OUTPUT) entries of signals
Leading(signals) ==
    [i \in 1..Min2(Len(signals), MAX_SYMBOLS_OUTPUT) |-> signals[i]]

\* C4 (amended): each side of the report lists the leading entries of the
\* sorted list, never more than the configured maximum; the lists written to
\* the run snapshot are the whole sorted lists.
C4_ReportIsCapped ==
    /\ text # << >> =>
          /\ Len(text[1].bullish) <= MAX_SYMBOLS_OUTPUT
          /\ Len(text[1].bearish) <= MAX_SYMBOLS_OUTPUT
          /\ text[1].bullish = Leading(bullish_signals)
          /\ text[1].bearish = Leading(bearish_signals)
    /\ run_log # << >> =>
          /\ run_log[1].bullish_signals = bullish_signals
          /\ run_log[1].bearish_signals = bearish_signals

\* C4 witness: a pass is over in which more symbols qualified as bullish than
\* the maximum; the report lists the maximum, the snapshot all of them
C4_MoreQualifyThanShown ==
    /\ pc = "done"
    /\ Len(bullish_signals) > MAX_SYMBOLS_OUTPUT
    /\ text # << >> /\ Len(text[1].bullish) = MAX_SYMBOLS_OUTPUT
    /\ run_log # << >> /\ Len(run_log[1].bullish_signals) > MAX_SYMBOLS_OUTPUT

(***************************************************************************)
(* The Flask endpoints /run and /run_symbol.  The development server runs   *)
(* each request in a thread of its own, so the statements of the handlers   *)
(* interleave.  Of run_screener only what touches the module-level name     *)
(* get_futures_symbols is kept: the call at the head of the pass.           *)
(***************************************************************************)
MaxRequests == 3

\* the values of ?symbol= after .upper(); "" is the missing argument
Arguments == {"", "BTCUSDT", "ETHUSDT"}

Unbound == [fn |-> "unbound", sym |-> ""]

Request(path, sym, quiet) ==
    [path |-> path, symbol |-> sym, pc |-> "start", original |-> Unbound,
     screened |-> "nothing", after_all |-> quiet, status |-> 0]

Finished == \A r \in 1..Len(requests) : requests[r].pc = "done"

\* a request arrives and gets its thread
Arrive(path, sym) ==
    /\ pc = "idle"
    /\ Len(requests) < MaxRequests
    /\ path = "/run" => sym = ""
    /\ requests' = Append(requests, Request(path, sym, Finished))
    /\ UNCHANGED <<get_futures_symbols, AUTO_THRESHOLD, indVars, detVars, parVars, passVars>>

\* run_endpoint: calls run_screener
run_endpoint(r) ==
    /\ requests[r].path = "/run"
    /\ requests[r].pc = "start"
    /\ requests' = [requests EXCEPT ![r].pc = "run_screener"]
    /\ UNCHANGED <<get_futures_symbols, AUTO_THRESHOLD, indVars, detVars, parVars, passVars>>

\* run_symbol_endpoint without a symbol: 400
MissingSymbol(r) ==
    /\ requests[r].path = "/run_symbol"
    /\ requests[r].pc = "start"
    /\ requests[r].symbol = ""
    /\ requests' = [requests EXCEPT ![r].pc = "done", ![r].status = 400]
    /\ UNCHANGED <<get_futures_symbols, AUTO_THRESHOLD, indVars, detVars, parVars, passVars>>

\* original = get_futures_symbols
SaveOriginal(r) ==
    /\ requests[r].path = "/run_symbol"
    /\ requests[r].pc = "start"
    /\ requests[r].symbol # ""
    /\ requests' = [requests EXCEPT ![r].original = get_futures_symbols,
                                    ![r].pc = "patch"]
    /\ UNCHANGED <<get_futures_symbols, AUTO_THRESHOLD, indVars, detVars, parVars, passVars>>

\* get_futures_symbols = lambda: [sym]
Patch(r) ==
    /\ requests[r].pc = "patch"
    /\ get_futures_symbols' = Lambda(requests[r].symbol)
    /\ requests' = [requests EXCEPT ![r].pc = "run_screener"]
    /\ UNCHANGED <<AUTO_THRESHOLD, indVars, detVars, parVars, passVars>>

\* run_screener: symbols = get_futures_symbols(), whatever the name is bound
\* to now; the original function may raise, which run_screener reports
ScreenerDiscovers(r) ==
    /\ requests[r].pc = "run_screener"
    /\ \E ok \in BOOLEAN :
          requests' = [requests EXCEPT
              ![r].screened = IF get_futures_symbols = Original
                              THEN (IF ok THEN "every symbol" ELSE "discovery failed")
                              ELSE get_futures_symbols.sym,
              ![r].pc = "screening"]
    /\ UNCHANGED <<get_futures_symbols, AUTO_THRESHOLD, indVars, detVars, parVars, passVars>>

\* run_screener returns
ScreenerReturns(r) ==
    /\ requests[r].pc = "screening"
    /\ requests' = [requests EXCEPT
          ![r].pc = IF requests[r].path = "/run" THEN "done" ELSE "restore",
          ![r].status = IF requests[r].path = "/run" THEN 200 ELSE 0]
    /\ UNCHANGED <<get_futures_symbols, AUTO_THRESHOLD, indVars, detVars, parVars, passVars>>

\* run_screener raises from a statement outside its try blocks (a print to a
\* closed or non-UTF-8 stdout): /run_symbol's except clause answers 500, and
\* so does Flask for /run
ScreenerRaises(r) ==
    /\ requests[r].pc \in {"run_screener", "screening"}
    /\ requests' = [requests EXCEPT ![r].pc = "done", ![r].status = 500]
    /\ UNCHANGED <<get_futures_symbols, AUTO_THRESHOLD, indVars, detVars, parVars, passVars>>

\* get_futures_symbols = original
Restore(r) ==
    /\ requests[r].pc = "restore"
    /\ get_futures_symbols' = requests[r].original
    /\ requests' = [requests EXCEPT ![r].pc = "done", ![r].status = 200]
    /\ UNCHANGED <<AUTO_THRESHOLD, indVars, detVars, parVars, passVars>>

EpInit ==
    /\ IndIdle
    /\ DetIdle
    /\ ParIdle
    /\ PassIdle

EpNext ==
    \/ \E path \in {"/run", "/run_symbol"}, sym \in Arguments : Arrive(path, sym)
    \/ \E r \in 1..Len(requests) : run_endpoint(r)
    \/ \E r \in 1..Len(requests) : MissingSymbol(r)
    \/ \E r \in 1..Len(requests) : SaveOriginal(r)
    \/ \E r \in 1..Len(requests) : Patch(r)
    \/ \E r \in 1..Len(requests) : ScreenerDiscovers(r)
    \/ \E r \in 1..Len(requests) : ScreenerReturns(r)
    \/ \E r \in 1..Len(requests) : ScreenerRaises(r)
    \/ \E r \in 1..Len(requests) : Restore(r)

SpecEndpoints == EpInit /\ [][EpNext]_vars

\* C10: the override made by /run_symbol is temporary: under any interleaving
\* of requests, and whether run_screener returns or raises, once every
\* request has finished get_futures_symbols is the original function again,
\* and a /run that arrives then screens the full universe.
C10_OverrideIsTemporary ==
    /\ Finished => get_futures_symbols = Original
    /\ \A r \in 1..Len(requests) :
          (/\ requests[r].path = "/run"
           /\ requests[r].after_all
           /\ r = Len(requests)
           /\ requests[r].screened # "nothing")
          => requests[r].screened \in {"every symbol", "discovery failed"}

\* the same, restricted to passes that return: no request has answered 500
C10_OverrideIsTemporaryWhenReturning ==
    (Finished /\ \A r \in 1..Len(requests) : requests[r].status # 500)
        => get_futures_symbols = Original

(***************************************************************************)
(* Exclusivity of the two gaps.  get_klines converts whatever rows the      *)
(* exchange serves, so the detector is also called on rows whose high lies  *)
(* under their low: only for such rows can both price patterns hold, and    *)
(* then the threshold tests alone decide.  The specification joins those    *)
(* calls of the detector with the screening passes of Spec.                 *)
(***************************************************************************)
RawCandles ==
    DetCandles \cup
    { Candle(102, 100, 104, 102),    \* high under low
      Candle(102, 102, 102, 102),    \* flat, between
      Candle(102, 103, 101, 102) }   \* inside the range 100..104

RawDetInit ==
    /\ IndIdle
    /\ ParIdle
    /\ PassIdle
    /\ AUTO_THRESHOLD \in BOOLEAN
    /\ det_klines \in SeqsUpTo(RawCandles, MaxDetLen)
    /\ det_out = "pending"
    /\ det_pc = "call"

ExclusiveInit == RawDetInit \/ Init

ExclusiveNext == CallDetect \/ run_screener

SpecExclusive == ExclusiveInit /\ [][ExclusiveNext]_vars

\* both price patterns of the detector hold for the history kl
BothPatterns(kl) ==
    /\ Len(kl) >= 3
    /\ kl[Len(kl)].low > kl[Len(kl) - 2].high
    /\ kl[Len(kl) - 1].close > kl[Len(kl) - 2].high
    /\ kl[Len(kl)].high < kl[Len(kl) - 2].low
    /\ kl[Len(kl) - 1].close < kl[Len(kl) - 2].low

\* C11: one call of detect_fvg_lux_from_klines, with the adaptive threshold
\* on or off, never returns both a bullish and a bearish gap (the threshold
\* is never negative); and no symbol is in both the bullish and the bearish
\* list of a screening pass.
C11_NeverBothGaps ==
    /\ det_pc = "returned" =>
          /\ Threshold(det_klines, AUTO_THRESHOLD) >= 0
          /\ ~(det_out.bull # None /\ det_out.bear # None)
    /\ \A s \in 1..Len(visited) :
          LET sc == market[visited[s]]
          IN (~KlinesRaises(sc) /\ Len(KlinesOf[sc]) > 0) =>
                ~(/\ ReadingOf[sc][AUTO_THRESHOLD].gaps.bull # None
                  /\ ReadingOf[sc][AUTO_THRESHOLD].gaps.bear # None)
    /\ Listed(bullish_signals) \cap Listed(bearish_signals) = {}

\* C11 witness: the detector has returned for a history in which both price
\* patterns hold, under the adaptive threshold, with at most one gap
C11_BothPatternsOneGap ==
    /\ det_pc = "returned"
    /\ AUTO_THRESHOLD
    /\ BothPatterns(det_klines)
    /\ Threshold(det_klines, AUTO_THRESHOLD) > 0
    /\ det_out.bull # None
    /\ det_out.bear = None

\* a pass is over that lists a bullish and a bearish symbol, each on one side
C11_BothSidesListed ==
    /\ pc = "done"
    /\ bullish_signals # << >> /\ bearish_signals # << >>
    /\ Listed(bullish_signals) \cap Listed(bearish_signals) = {}

=============================================================================
